---- MODULE Spec2Model ----
(***************************************************************************)
(* Model of clientv3/kv.go: the kv dispatcher (NewKV, Put/Get/Delete via   *)
(* kv.do, Compact, switchRemote, getRemote) run by concurrent callers and  *)
(* by the goroutines that `go kv.switchRemote(err)` detaches.              *)
(*                                                                         *)
(* Processes: the callers 1..NCallers, each running one call at a time,    *)
(* and the detached goroutines NCallers+1..NCallers+MaxGo.  A connection   *)
(* is a number, a stub is the record NewKVClient builds around one.        *)
(* The Client (ActiveConnection, retryConnection), the server behind the   *)
(* stub and the error classifiers isRPCError / isWrite are collaborators   *)
(* outside kv.go.                                                          *)
(***************************************************************************)
EXTENDS Integers, Sequences, FiniteSets, TLC

\* ---------------------------------------------------------------- bounds
NCallers == 2        \* concurrent callers sharing one kv
MaxGo == 2           \* goroutines the run may detach
MaxConn == 1         \* connections are 0..MaxConn
MaxAttempts == 2     \* RPC attempts one call may make
MaxCalls == 1        \* calls one caller issues
MaxReply == 1        \* replies are 0..MaxReply
MaxVal == 1          \* keys, values and option arguments are 0..MaxVal
MaxOpts == 2         \* options one API call is given

Callers == 1..NCallers
Gos == (NCallers + 1)..(NCallers + MaxGo)
Procs == Callers \cup Gos
Conns == 0..MaxConn
Replies == 0..MaxReply

NoConn == -1
NoProc == 0

\* ---------------------------------------------------------------- values
NoErr == "nil"
RPCErrs == {"etcdserver: compacted"}
TransportErrs == {"transport: unavailable"}
CancelErrs == {"context canceled"}
DialErrs == {"dial failed"}

DoKinds == {"Range", "Put", "DeleteRange", "Txn"}
Kinds == DoKinds \cup {"Compact"}

\* pb.NewKVClient(conn): the stub keeps the connection it was built on.
NewKVClient(c) == [cc |-> c]
NoStub == [cc |-> NoConn]

\* pb.ResponseUnion wrapping the reply of the kind's RPC.
ResponseUnion(tag, reply) == [tag |-> tag, reply |-> reply]
NoResp == [tag |-> "nil", reply |-> -1]

\* isRPCError(err): the remote processed the request and rejected it.
isRPCError(e) == e \in RPCErrs

\* op.isWrite(): every kind but Range is a modification.
isWrite(k) == k \in {"Put", "DeleteRange", "Txn"}

VARIABLES
  cconn,     \* Client: the active connection ActiveConnection returns
  nk,        \* NewKV: "new0" before line 68, "new1" before line 71, "done"
  nkremote,  \* NewKV: the local `remote` of line 69
  conn,      \* kv.conn
  remote,    \* kv.remote
  mu,        \* kv.mu: NoProc when free, else the holder
  pc,        \* position of each process
  op,        \* kind of the caller's current call
  ctxc,      \* the caller's context is canceled
  ncalls,    \* calls the caller has issued
  lrem,      \* stub snapshot the current attempt was issued on
  prevErr,   \* switchRemote's prevErr
  arg,       \* connection handed to retryConnection (kv.conn read at line 180)
  newc,      \* retryConnection's newConn
  rerr,      \* retryConnection's err
  parent,    \* goroutine: the caller whose failure detached it
  failedOn,  \* connection of the stub whose attempt failed and led to this rotation
  log,       \* events of the caller's current call, of the goroutine's rotation
  result,    \* what the caller's current call returned
  lastInst,  \* process whose switchRemote completed its install last
  lastConn,  \* kv.conn as that install left it
  oph,       \* one API call seen from its descriptor: the step it is at
  oapi,      \* the API entry called, with its key and value arguments
  oopts,     \* the options it was given, in order
  opd,       \* the Op descriptor built from them
  oreq,      \* the RPC kv.do issued: method and request message
  oreply,    \* the reply the stub returned
  oresp,     \* the *pb.ResponseUnion kv.do returned
  oout       \* what the API entry returned to its caller

kvvars == <<conn, remote, mu>>
newvars == <<cconn, nk, nkremote>>
callvars == <<op, ctxc, ncalls, lrem, log, result>>
swvars == <<prevErr, arg, newc, rerr, parent, failedOn, lastInst, lastConn>>
opvars == <<oph, oapi, oopts, opd, oreq, oreply, oresp, oout>>
vars == <<cconn, nk, nkremote, conn, remote, mu, pc, op, ctxc, ncalls, lrem,
          prevErr, arg, newc, rerr, parent, failedOn, log, result, lastInst, lastConn,
          oph, oapi, oopts, opd, oreq, oreply, oresp, oout>>

\* ---------------------------------------------------------------- log
Ev(e, c, s) == [e |-> e, c |-> c, s |-> s]
EvRpc(stub) == Ev("rpc", stub.cc, "")
EvOk(reply) == Ev("ok", reply, "")
EvFail(e) == Ev("fail", -1, e)
EvSpawn(g) == Ev("spawn", g, "")
EvRetry(c) == Ev("retry", c, "")
EvRotOk(c) == Ev("rotok", c, "")
EvRotFail(e) == Ev("rotfail", -1, e)

Count(s, kind) == Cardinality({i \in 1..Len(s) : s[i].e = kind})
Attempts(t) == Count(log[t], "rpc")

\* ---------------------------------------------------------------- Op
\* Keys, values, range ends, revisions, limits, lease ids and sort fields; 0
\* stands for Go's zero value of each.
Vals == 0..MaxVal

\* op.sort: nil, or a *SortOption with its Order and Target.
NoSort == [set |-> FALSE, Order |-> 0, Target |-> 0]
SortOption(target, order) == [set |-> TRUE, Order |-> order, Target |-> target]

\* The Op descriptor with its fields at their defaults.
Op(t, key, val) ==
  [t |-> t, key |-> key, val |-> val, end |-> 0, rev |-> 0, limit |-> 0,
   sort |-> NoSort, leaseID |-> 0]
NoOp == Op("none", 0, 0)

\* The options of an API call: each sets the fields it owns.
Options ==
  {[o |-> n, v |-> v, w |-> 0] : n \in {"WithLease", "WithRange", "WithLimit", "WithRev"},
                                 v \in Vals}
  \cup {[o |-> "WithSort", v |-> v, w |-> w] : v \in Vals, w \in Vals}
OptSeqs == UNION {[1..n -> Options] : n \in 0..MaxOpts}

applyOpt(d, x) ==
  CASE x.o = "WithLease" -> [d EXCEPT !.leaseID = x.v]
    [] x.o = "WithRange" -> [d EXCEPT !.end = x.v]
    [] x.o = "WithLimit" -> [d EXCEPT !.limit = x.v]
    [] x.o = "WithRev" -> [d EXCEPT !.rev = x.v]
    [] x.o = "WithSort" -> [d EXCEPT !.sort = SortOption(x.v, x.w)]

\* Options are applied in call order.
RECURSIVE applyOpts(_, _)
applyOpts(d, opts) ==
  IF opts = <<>> THEN d ELSE applyOpts(applyOpt(d, Head(opts)), Tail(opts))

OpPut(key, val, opts) == applyOpts(Op("Put", key, val), opts)
OpGet(key, opts) == applyOpts(Op("Range", key, 0), opts)
OpDelete(key, opts) == applyOpts(Op("DeleteRange", key, 0), opts)

\* lines 80, 88, 96: the descriptor each API entry hands to kv.do.
APIs == {"Put", "Get", "Delete"}
apiOp(f, key, val, opts) ==
  CASE f = "Put" -> OpPut(key, val, opts)
    [] f = "Get" -> OpGet(key, opts)
    [] f = "Delete" -> OpDelete(key, opts)

\* kv.do building the Put request without the lease of the descriptor.
doRequestNoLease(o) ==
  CASE o.t = "Range" ->
         [method |-> "Range",
          msg |-> [Key |-> o.key, RangeEnd |-> o.end, Limit |-> o.limit,
                   Revision |-> o.rev,
                   SortOrder |-> IF o.sort.set THEN o.sort.Order ELSE 0,
                   SortTarget |-> IF o.sort.set THEN o.sort.Target ELSE 0]]
    [] o.t = "Put" ->
         [method |-> "Put",
          msg |-> [Key |-> o.key, Value |-> o.val, Lease |-> 0]]
    [] o.t = "DeleteRange" ->
         [method |-> "DeleteRange",
          msg |-> [Key |-> o.key, RangeEnd |-> o.end]]

\* lines 132-138, 145-146, 153-154: the request message kv.do builds from
\* the descriptor and the stub method it calls with it.
doRequest(o) ==
  CASE o.t = "Range" ->
         [method |-> "Range",
          msg |-> [Key |-> o.key, RangeEnd |-> o.end, Limit |-> o.limit,
                   Revision |-> o.rev,
                   SortOrder |-> IF o.sort.set THEN o.sort.Order ELSE 0,
                   SortTarget |-> IF o.sort.set THEN o.sort.Target ELSE 0]]
    [] o.t = "Put" ->
         [method |-> "Put",
          msg |-> [Key |-> o.key, Value |-> o.val, Lease |-> o.leaseID]]
    [] o.t = "DeleteRange" ->
         [method |-> "DeleteRange",
          msg |-> [Key |-> o.key, RangeEnd |-> o.end]]
NoReq == [method |-> "none", msg |-> [Key |-> 0]]

\* What a stub method returns on success: the response message of that
\* method (*pb.RangeResponse, *pb.PutResponse, *pb.DeleteRangeResponse).
StubReply(method, r) == [of |-> method, v |-> r]
NilReply == [of |-> "nil", v |-> -1]
NoUnion == ResponseUnion("nil", NilReply)

\* r.GetResponsePut(), r.GetResponseRange(), r.GetResponseDeleteRange(): the
\* variant when it is the populated one, else nil.
GetVariant(u, tag) == IF u.tag = tag THEN u.reply ELSE NilReply

\* lines 84, 92, 100: the variant each API entry unwraps.
apiVariant(f) ==
  CASE f = "Put" -> "ResponsePut"
    [] f = "Get" -> "ResponseRange"
    [] f = "Delete" -> "ResponseDeleteRange"

NoResult == [resp |-> NoResp, err |-> "none"]

Init ==
  /\ cconn = 0
  /\ nk = "new0"
  /\ nkremote = NoStub
  /\ conn = NoConn
  /\ remote = NoStub
  /\ mu = NoProc
  /\ pc = [p \in Procs |-> IF p \in Callers THEN "idle" ELSE "unborn"]
  /\ op = [t \in Callers |-> "none"]
  /\ ctxc = [t \in Callers |-> FALSE]
  /\ ncalls = [t \in Callers |-> 0]
  /\ lrem = [t \in Callers |-> NoStub]
  /\ prevErr = [p \in Procs |-> NoErr]
  /\ arg = [p \in Procs |-> NoConn]
  /\ newc = [p \in Procs |-> NoConn]
  /\ rerr = [p \in Procs |-> NoErr]
  /\ parent = [g \in Gos |-> NoProc]
  /\ failedOn = [p \in Procs |-> NoConn]
  /\ log = [p \in Procs |-> <<>>]
  /\ result = [t \in Callers |-> NoResult]
  /\ lastInst = NoProc
  /\ lastConn = NoConn
  /\ oph = "idle"
  /\ oapi = [f |-> "none", key |-> 0, val |-> 0]
  /\ oopts = <<>>
  /\ opd = NoOp
  /\ oreq = NoReq
  /\ oreply = NilReply
  /\ oresp = NoUnion
  /\ oout = NilReply

\* ---------------------------------------------------------------- Client
\* Another user of the same Client has the active connection replaced while
\* NewKV runs.
ClientRotate ==
  /\ nk = "new1"
  /\ \E c \in Conns \ {cconn} : cconn' = c
  /\ UNCHANGED <<nk, nkremote, opvars, kvvars, pc, callvars, swvars>>

\* ---------------------------------------------------------------- NewKV
\* lines 68-69: conn := c.ActiveConnection(); remote := pb.NewKVClient(conn)
NewKVRemote ==
  /\ nk = "new0"
  /\ nkremote' = NewKVClient(cconn)
  /\ nk' = "new1"
  /\ UNCHANGED <<cconn, opvars, kvvars, pc, callvars, swvars>>

\* lines 71-76: &kv{conn: c.ActiveConnection(), remote: remote, c: c}
NewKVStruct ==
  /\ nk = "new1"
  /\ conn' = cconn
  /\ remote' = nkremote
  /\ nk' = "done"
  /\ UNCHANGED <<cconn, nkremote, opvars, mu, pc, callvars, swvars>>

\* ---------------------------------------------------------------- calls
\* Put, Get, Delete (lines 79-101) build the descriptor and enter kv.do;
\* Compact (line 103) and a Txn descriptor handed to kv.do start the same way.
Call(t, k) ==
  /\ nk = "done"
  /\ pc[t] \in {"idle", "done"}
  /\ ncalls[t] < MaxCalls
  /\ ncalls' = [ncalls EXCEPT ![t] = @ + 1]
  /\ op' = [op EXCEPT ![t] = k]
  /\ ctxc' = [ctxc EXCEPT ![t] = FALSE]
  /\ lrem' = [lrem EXCEPT ![t] = NoStub]
  /\ log' = [log EXCEPT ![t] = <<>>]
  /\ result' = [result EXCEPT ![t] = NoResult]
  /\ prevErr' = [prevErr EXCEPT ![t] = NoErr]
  /\ pc' = [pc EXCEPT ![t] = "top"]
  /\ UNCHANGED <<newvars, opvars, kvvars, arg, newc, rerr, parent, failedOn, lastInst, lastConn>>

\* line 128: the kinds the switch of kv.do has a case for.
doHasCase(k) == k \in {"Range", "Put", "DeleteRange"}

\* lines 159-160: default: panic("Unknown op")
DoPanic(t) ==
  /\ pc[t] = "top"
  /\ op[t] # "Compact"
  /\ ~doHasCase(op[t])
  /\ pc' = [pc EXCEPT ![t] = "panic"]
  /\ UNCHANGED <<newvars, opvars, kvvars, callvars, swvars>>

\* line 194: kv.mu.Lock() in getRemote
GetRemoteLock(t) ==
  /\ pc[t] = "top"
  /\ op[t] = "Compact" \/ doHasCase(op[t])
  /\ mu = NoProc
  /\ mu' = t
  /\ pc' = [pc EXCEPT ![t] = "gr"]
  /\ UNCHANGED <<newvars, opvars, conn, remote, callvars, swvars>>

\* getRemote without the deferred Unlock of line 195: the mutex stays held
\* while the RPC runs.
GetRemoteReadKeepsLock(t) ==
  /\ pc[t] = "gr"
  /\ mu = t
  /\ lrem' = [lrem EXCEPT ![t] = remote]
  /\ log' = [log EXCEPT ![t] = Append(@, EvRpc(remote))]
  /\ pc' = [pc EXCEPT ![t] = "rpc"]
  /\ UNCHANGED <<newvars, opvars, kvvars, op, ctxc, ncalls, result, swvars>>

\* kv.do keeping the stub of its first attempt: the getRemote() call of
\* line 138 hoisted out of the loop.
GetRemoteReadStale(t) ==
  /\ pc[t] = "gr"
  /\ mu = t
  /\ lrem' = [lrem EXCEPT ![t] = IF Attempts(t) >= 1 THEN @ ELSE remote]
  /\ log' = [log EXCEPT ![t] = Append(@, EvRpc(lrem'[t]))]
  /\ mu' = NoProc
  /\ pc' = [pc EXCEPT ![t] = "rpc"]
  /\ UNCHANGED <<newvars, opvars, conn, remote, op, ctxc, ncalls, result, swvars>>

\* lines 195-196: return kv.remote, the deferred Unlock; then the RPC of
\* lines 105 / 138 / 146 / 154 is issued on the returned stub.
GetRemoteRead(t) ==
  /\ pc[t] = "gr"
  /\ mu = t
  /\ lrem' = [lrem EXCEPT ![t] = remote]
  /\ log' = [log EXCEPT ![t] = Append(@, EvRpc(remote))]
  /\ mu' = NoProc
  /\ pc' = [pc EXCEPT ![t] = "rpc"]
  /\ UNCHANGED <<newvars, opvars, conn, remote, op, ctxc, ncalls, result, swvars>>

\* The goroutines not yet started.
Unborn == {g \in Gos : pc[g] = "unborn"}

\* What the stub's RPC can answer: a reply, an RPC-level error, a transport
\* failure, or the failure of a canceled context.  Once the context is
\* canceled an attempt can only fail with the cancellation.  A failure that
\* detaches a goroutine needs one left in the pool.
RpcOutcomes(t) ==
  LET room == op[t] = "Range" \/ Unborn # {}
  IN  (IF ctxc[t] THEN {} ELSE
         {[err |-> NoErr, reply |-> r] : r \in Replies}
         \cup {[err |-> e, reply |-> -1] : e \in RPCErrs}
         \cup (IF room THEN {[err |-> e, reply |-> -1] : e \in TransportErrs} ELSE {}))
      \cup (IF room THEN {[err |-> e, reply |-> -1] : e \in CancelErrs} ELSE {})

\* kv.do without line 168: a modification is retried like a read.
doNextRetryWrites(k, e) ==
  IF e = NoErr THEN "ok"
  ELSE IF isRPCError(e) THEN "return"
  ELSE "switch"

\* kv.do without lines 163-165: an RPC-level error is handled as a transport
\* failure.
doNextNoRPCCheck(k, e) ==
  IF e = NoErr THEN "ok"
  ELSE IF isWrite(k) THEN "spawn"
  ELSE "switch"

\* lines 139-175: what kv.do does with the attempt's err.
doNext(k, e) ==
  IF e = NoErr THEN "ok"
  ELSE IF isRPCError(e) THEN "return"
  ELSE IF isWrite(k) THEN "spawn"
  ELSE "switch"

\* Compact without lines 110-112: every error triggers the rotation.
compactNextNoRPCCheck(e) ==
  IF e = NoErr THEN "ok"
  ELSE "spawn"

\* lines 106-115: what Compact does with the attempt's err.
compactNext(e) ==
  IF e = NoErr THEN "ok"
  ELSE IF isRPCError(e) THEN "return"
  ELSE "spawn"

\* kv.do wrapping every reply in the Put variant.
doWrapAlwaysPut(k, reply) == ResponseUnion("ResponsePut", reply)

\* lines 140, 148, 156: the union variant kv.do wraps the reply in.
doWrap(k, reply) ==
  CASE k = "Range" -> ResponseUnion("ResponseRange", reply)
    [] k = "Put" -> ResponseUnion("ResponsePut", reply)
    [] k = "DeleteRange" -> ResponseUnion("ResponseDeleteRange", reply)
    [] OTHER -> NoResp

\* lines 114, 169: go kv.switchRemote(err)
Spawn(t, e) ==
  /\ Unborn # {}
  /\ LET g == CHOOSE x \in Unborn : \A y \in Unborn : x <= y
     IN  /\ pc' = [pc EXCEPT ![t] = "ret", ![g] = "sw"]
         /\ prevErr' = [prevErr EXCEPT ![t] = e, ![g] = e]
         /\ parent' = [parent EXCEPT ![g] = t]
         /\ failedOn' = [failedOn EXCEPT ![g] = lrem[t].cc]
         /\ log' = [log EXCEPT ![t] = Append(Append(@, EvFail(e)), EvSpawn(g))]

\* The attempt of kv.do returns (lines 138-175).
DoRpcReturn(t) ==
  /\ pc[t] = "rpc"
  /\ op[t] # "Compact"
  /\ \E out \in RpcOutcomes(t) :
       LET nx == doNext(op[t], out.err) IN
       /\ ctxc' = [ctxc EXCEPT ![t] = @ \/ out.err \in CancelErrs]
       /\ CASE nx = "ok" ->
                 /\ result' = [result EXCEPT ![t] =
                                 [resp |-> doWrap(op[t], out.reply), err |-> NoErr]]
                 /\ log' = [log EXCEPT ![t] = Append(@, EvOk(out.reply))]
                 /\ pc' = [pc EXCEPT ![t] = "done"]
                 /\ UNCHANGED <<prevErr, parent, failedOn>>
            [] nx = "return" ->
                 /\ result' = [result EXCEPT ![t] = [resp |-> NoResp, err |-> out.err]]
                 /\ log' = [log EXCEPT ![t] = Append(@, EvFail(out.err))]
                 /\ pc' = [pc EXCEPT ![t] = "done"]
                 /\ UNCHANGED <<prevErr, parent, failedOn>>
            [] nx = "spawn" ->
                 /\ Spawn(t, out.err)
                 /\ UNCHANGED result
            [] OTHER ->
                 /\ prevErr' = [prevErr EXCEPT ![t] = out.err]
                 /\ failedOn' = [failedOn EXCEPT ![t] = lrem[t].cc]
                 /\ log' = [log EXCEPT ![t] = Append(@, EvFail(out.err))]
                 /\ pc' = [pc EXCEPT ![t] = "sw"]
                 /\ UNCHANGED <<result, parent>>
  /\ UNCHANGED <<newvars, opvars, kvvars, op, ncalls, lrem, arg, newc, rerr, lastInst, lastConn>>

\* The attempt of Compact returns (lines 105-115).
CompactRpcReturn(t) ==
  /\ pc[t] = "rpc"
  /\ op[t] = "Compact"
  /\ \E out \in RpcOutcomes(t) :
       LET nx == compactNext(out.err) IN
       /\ ctxc' = [ctxc EXCEPT ![t] = @ \/ out.err \in CancelErrs]
       /\ CASE nx = "ok" ->
                 /\ result' = [result EXCEPT ![t] = [resp |-> NoResp, err |-> NoErr]]
                 /\ log' = [log EXCEPT ![t] = Append(@, EvOk(out.reply))]
                 /\ pc' = [pc EXCEPT ![t] = "done"]
                 /\ UNCHANGED <<prevErr, parent, failedOn>>
            [] nx = "return" ->
                 /\ result' = [result EXCEPT ![t] = [resp |-> NoResp, err |-> out.err]]
                 /\ log' = [log EXCEPT ![t] = Append(@, EvFail(out.err))]
                 /\ pc' = [pc EXCEPT ![t] = "done"]
                 /\ UNCHANGED <<prevErr, parent, failedOn>>
            [] OTHER ->
                 /\ Spawn(t, out.err)
                 /\ UNCHANGED result
  /\ UNCHANGED <<newvars, opvars, kvvars, op, ncalls, lrem, arg, newc, rerr, lastInst, lastConn>>

\* lines 115, 170: return err, after the go statement.
ReturnErr(t) ==
  /\ pc[t] = "ret"
  /\ result' = [result EXCEPT ![t] = [resp |-> NoResp, err |-> prevErr[t]]]
  /\ pc' = [pc EXCEPT ![t] = "done"]
  /\ UNCHANGED <<newvars, opvars, kvvars, op, ctxc, ncalls, lrem, log, swvars>>

\* ---------------------------------------------------------------- switchRemote
\* line 180: kv.c.retryConnection(kv.conn, prevErr) is called; kv.conn is
\* read without the mutex.
SwitchRetry(p) ==
  /\ pc[p] = "sw"
  /\ arg' = [arg EXCEPT ![p] = conn]
  /\ newc' = [newc EXCEPT ![p] = NoConn]
  /\ rerr' = [rerr EXCEPT ![p] = NoErr]
  /\ log' = [log EXCEPT ![p] = Append(@, EvRetry(conn))]
  /\ pc' = [pc EXCEPT ![p] = "retry"]
  /\ UNCHANGED <<newvars, opvars, kvvars, op, ctxc, ncalls, lrem, result, prevErr,
                 parent, failedOn, lastInst, lastConn>>

\* What retryConnection can return: a replacement connection, or a failure.
\* A caller whose call has used up its attempts gets no further connection.
RetryOutcomes(p) ==
  {[conn |-> NoConn, err |-> e] : e \in DialErrs}
  \cup (IF p \in Callers /\ Attempts(p) >= MaxAttempts THEN {}
        ELSE {[conn |-> c, err |-> NoErr] : c \in Conns \ {arg[p]}})

\* Client.retryConnection returns; a connection it hands out is the Client's
\* active connection from then on.
RetryReturn(p) ==
  /\ pc[p] = "retry"
  /\ \E r \in RetryOutcomes(p) :
       /\ newc' = [newc EXCEPT ![p] = r.conn]
       /\ rerr' = [rerr EXCEPT ![p] = r.err]
       /\ cconn' = IF r.err = NoErr THEN r.conn ELSE cconn
  /\ pc' = [pc EXCEPT ![p] = "swret"]
  /\ UNCHANGED <<nk, nkremote, opvars, kvvars, callvars, prevErr, arg, parent,
                 failedOn, lastInst, lastConn>>

\* kv.do returning err instead of nerr at line 174.
doSwitchErrStale(nerr, err) == err

\* line 174: the error kv.do returns when switchRemote returned nerr after
\* the attempt failed with err.
doSwitchErr(nerr, err) == nerr

\* kv.do ignoring nerr at line 173: the loop goes on to its next attempt
\* although the rotation failed.
SwitchFailRetries(p) ==
  /\ pc[p] = "swret"
  /\ rerr[p] # NoErr
  /\ log' = [log EXCEPT ![p] = Append(@, EvRotFail(rerr[p]))]
  /\ pc' = [pc EXCEPT ![p] = IF p \in Callers THEN "top" ELSE "end"]
  /\ UNCHANGED <<newvars, opvars, kvvars, op, ctxc, ncalls, lrem, result, swvars>>

\* switchRemote assigning retryConnection's result to kv.conn before the
\* check of line 181: a failed rotation leaves kv.conn nil.
SwitchFailInstallsNil(p) ==
  /\ pc[p] = "swret"
  /\ rerr[p] # NoErr
  /\ conn' = newc[p]
  /\ log' = [log EXCEPT ![p] = Append(@, EvRotFail(rerr[p]))]
  /\ IF p \in Callers
       THEN /\ result' = [result EXCEPT ![p] =
                            [resp |-> NoResp, err |-> doSwitchErr(rerr[p], prevErr[p])]]
            /\ pc' = [pc EXCEPT ![p] = "done"]
       ELSE /\ pc' = [pc EXCEPT ![p] = "end"]
            /\ UNCHANGED result
  /\ UNCHANGED <<newvars, opvars, remote, mu, op, ctxc, ncalls, lrem, swvars>>

\* lines 181-183: switchRemote returns retryConnection's error.  In kv.do
\* (lines 173-175) that ends the call; a detached goroutine just ends.
SwitchFail(p) ==
  /\ pc[p] = "swret"
  /\ rerr[p] # NoErr
  /\ log' = [log EXCEPT ![p] = Append(@, EvRotFail(rerr[p]))]
  /\ IF p \in Callers
       THEN /\ result' = [result EXCEPT ![p] =
                            [resp |-> NoResp, err |-> doSwitchErr(rerr[p], prevErr[p])]]
            /\ pc' = [pc EXCEPT ![p] = "done"]
       ELSE /\ pc' = [pc EXCEPT ![p] = "end"]
            /\ UNCHANGED result
  /\ UNCHANGED <<newvars, opvars, kvvars, op, ctxc, ncalls, lrem, swvars>>

\* line 185: kv.mu.Lock()
SwitchLock(p) ==
  /\ pc[p] = "swret"
  /\ rerr[p] = NoErr
  /\ mu = NoProc
  /\ mu' = p
  /\ pc' = [pc EXCEPT ![p] = "set1"]
  /\ UNCHANGED <<newvars, opvars, conn, remote, callvars, swvars>>

\* switchRemote installing only when kv.conn is still the connection the
\* failed attempt ran on: concurrent rotations coalesced, first one wins.
SwitchSetConnFirstWins(p) ==
  /\ pc[p] = "set1"
  /\ mu = p
  /\ conn' = IF conn = failedOn[p] THEN newc[p] ELSE conn
  /\ pc' = [pc EXCEPT ![p] = "set2"]
  /\ UNCHANGED <<newvars, opvars, remote, mu, callvars, swvars>>

\* line 188: kv.conn = newConn
SwitchSetConn(p) ==
  /\ pc[p] = "set1"
  /\ mu = p
  /\ conn' = newc[p]
  /\ pc' = [pc EXCEPT ![p] = "set2"]
  /\ UNCHANGED <<newvars, opvars, remote, mu, callvars, swvars>>

\* switchRemote without line 189: the stub is not rebuilt.
SwitchSetRemoteStale(p) ==
  /\ pc[p] = "set2"
  /\ mu = p
  /\ pc' = [pc EXCEPT ![p] = "unlock"]
  /\ UNCHANGED <<newvars, opvars, conn, remote, mu, callvars, swvars>>

\* line 189: kv.remote = pb.NewKVClient(kv.conn)
SwitchSetRemote(p) ==
  /\ pc[p] = "set2"
  /\ mu = p
  /\ remote' = NewKVClient(conn)
  /\ pc' = [pc EXCEPT ![p] = "unlock"]
  /\ UNCHANGED <<newvars, opvars, conn, mu, callvars, swvars>>

\* kv.do with a retry count of zero: after the rotation that follows a
\* failed attempt the call gives up and returns the attempt's error.
SwitchUnlockRetryLimit(p) ==
  /\ pc[p] = "unlock"
  /\ mu = p
  /\ mu' = NoProc
  /\ lastInst' = p
  /\ lastConn' = conn
  /\ log' = [log EXCEPT ![p] = Append(@, EvRotOk(newc[p]))]
  /\ IF p \in Callers /\ Attempts(p) >= 1
       THEN /\ pc' = [pc EXCEPT ![p] = "done"]
            /\ result' = [result EXCEPT ![p] = [resp |-> NoResp, err |-> prevErr[p]]]
       ELSE /\ pc' = [pc EXCEPT ![p] = IF p \in Callers THEN "top" ELSE "end"]
            /\ UNCHANGED result
  /\ UNCHANGED <<newvars, opvars, conn, remote, op, ctxc, ncalls, lrem,
                 prevErr, arg, newc, rerr, parent, failedOn>>

\* lines 186, 190: return nil and the deferred Unlock.  kv.do loops to its
\* next attempt (line 126); a detached goroutine ends.
SwitchUnlock(p) ==
  /\ pc[p] = "unlock"
  /\ mu = p
  /\ mu' = NoProc
  /\ lastInst' = p
  /\ lastConn' = conn
  /\ log' = [log EXCEPT ![p] = Append(@, EvRotOk(newc[p]))]
  /\ pc' = [pc EXCEPT ![p] = IF p \in Callers THEN "top" ELSE "end"]
  /\ UNCHANGED <<newvars, opvars, conn, remote, op, ctxc, ncalls, lrem, result,
                 prevErr, arg, newc, rerr, parent, failedOn>>

\* ---------------------------------------------------------------- steps
CallerStep(t) ==
  \/ \E k \in Kinds : Call(t, k)
  \/ DoPanic(t)
  \/ GetRemoteLock(t)
  \/ GetRemoteRead(t)
  \/ DoRpcReturn(t)
  \/ CompactRpcReturn(t)
  \/ ReturnErr(t)

SwitchStep(p) ==
  \/ SwitchRetry(p)
  \/ SwitchFail(p)
  \/ SwitchLock(p)
  \/ SwitchSetConn(p)
  \/ SwitchSetRemote(p)
  \/ SwitchUnlock(p)

Next ==
  \/ ClientRotate
  \/ NewKVRemote
  \/ NewKVStruct
  \/ \E t \in Callers : CallerStep(t)
  \/ \E p \in Procs : SwitchStep(p)
  \/ \E p \in Procs : RetryReturn(p)

Spec == Init /\ [][Next]_vars

\* A caller keeps running its own code: the return after the go statement
\* needs nothing from any other process.  Nothing is assumed of the detached
\* goroutines, of retryConnection or of the mutex.
FairCallers == Spec /\ \A t \in Callers : WF_vars(ReturnErr(t))

\* A step of the process that holds the mutex, up to its release.
HolderStep ==
  \E p \in Procs :
    /\ mu = p
    /\ \/ p \in Callers /\ GetRemoteRead(p)
       \/ SwitchSetConn(p)
       \/ SwitchSetRemote(p)
       \/ SwitchUnlock(p)

\* Fair scheduling of the goroutines: a detached goroutine keeps running its
\* code, a mutex holder keeps running up to its release, and sync.Mutex
\* hands the lock to a waiter that keeps asking.  Nothing is assumed of
\* retryConnection or of the RPCs, which may block forever.
FairSched ==
  /\ Spec
  /\ WF_vars(HolderStep)
  /\ \A g \in Gos : WF_vars(SwitchStep(g)) /\ SF_vars(SwitchLock(g))

\* ---------------------------------------------------------------- one call
\* One successful Put, Get or Delete followed from its arguments to what it
\* returns; the failure paths of kv.do are the actions above.
mainvars == <<newvars, kvvars, pc, callvars, swvars>>

\* lines 79-80, 87-88, 95-96: the API entry builds the descriptor.
ApiCall(f, key, val, opts) ==
  /\ oph = "idle"
  /\ oapi' = [f |-> f, key |-> key, val |-> val]
  /\ oopts' = opts
  /\ opd' = apiOp(f, key, val, opts)
  /\ oph' = "do"
  /\ UNCHANGED <<mainvars, oreq, oreply, oresp, oout>>

\* lines 128-154: kv.do selects the case of op.t, builds the request and
\* calls the stub method.
DoIssue ==
  /\ oph = "do"
  /\ doHasCase(opd.t)
  /\ oreq' = doRequest(opd)
  /\ oph' = "rpc"
  /\ UNCHANGED <<mainvars, oapi, oopts, opd, oreply, oresp, oout>>

\* The stub method returns its response with a nil error.
StubReturn(r) ==
  /\ oph = "rpc"
  /\ oreply' = StubReply(oreq.method, r)
  /\ oph' = "reply"
  /\ UNCHANGED <<mainvars, oapi, oopts, opd, oreq, oresp, oout>>

\* lines 139-142, 147-150, 155-158: kv.do wraps the response and returns.
DoWrapReturn ==
  /\ oph = "reply"
  /\ oresp' = doWrap(opd.t, oreply)
  /\ oph' = "ret"
  /\ UNCHANGED <<mainvars, oapi, oopts, opd, oreq, oreply, oout>>

\* lines 84, 92, 100: the API entry returns the variant of its kind.
ApiReturn ==
  /\ oph = "ret"
  /\ oout' = GetVariant(oresp, apiVariant(oapi.f))
  /\ oph' = "done"
  /\ UNCHANGED <<mainvars, oapi, oopts, opd, oreq, oreply, oresp>>

NextOp ==
  \/ \E f \in APIs, key \in Vals, opts \in OptSeqs :
       \E val \in (IF f = "Put" THEN Vals ELSE {0}) : ApiCall(f, key, val, opts)
  \/ DoIssue
  \/ \E r \in Replies : StubReturn(r)
  \/ DoWrapReturn
  \/ ApiReturn

SpecOp == Init /\ [][NextOp]_vars

\* ---------------------------------------------------------------- claims
Idx(s, kind) == {i \in 1..Len(s) : s[i].e = kind}
WriteKinds == {"Put", "DeleteRange"}
NonRPCErrs == TransportErrs \cup CancelErrs
ErrResult(e) == [resp |-> NoResp, err |-> e]

\* C1: a Put or DeleteRange whose attempt fails with a non-RPC-level error
\* has made exactly one RPC attempt, starts no rotation of its own and makes
\* no further attempt, and returns that same error, whatever becomes of the
\* rotation it detached.
C1_WriteTransportErrorNotRetried ==
  \A t \in Callers :
    \A i \in Idx(log[t], "fail") :
      (op[t] \in WriteKinds /\ log[t][i].s \in NonRPCErrs) =>
        /\ Attempts(t) = 1
        /\ Idx(log[t], "retry") = {}
        /\ pc[t] \in {"ret", "done"}
        /\ pc[t] = "done" => result[t] = ErrResult(log[t][i].s)

\* C1 witness: a write returned its transport error after one attempt, and
\* the rotation it detached has installed a new connection.
C1_Witness ==
  \E t \in Callers : \E g \in Gos :
    /\ op[t] \in WriteKinds /\ pc[t] = "done"
    /\ result[t].err \in TransportErrs
    /\ Attempts(t) = 1
    /\ parent[g] = t /\ pc[g] = "end" /\ rerr[g] = NoErr /\ conn = newc[g]

\* C2 as stated: when an attempt fails with an RPC-level error the call
\* returns it, exactly one attempt was made and no rotation was triggered.
C2_Original ==
  \A t \in Callers :
    \A i \in Idx(log[t], "fail") :
      log[t][i].s \in RPCErrs =>
        /\ result[t] = ErrResult(log[t][i].s)
        /\ Attempts(t) = 1
        /\ Idx(log[t], "retry") \cup Idx(log[t], "spawn") = {}

\* C2 amended: an attempt that fails with an RPC-level error is the last
\* thing the call does: the call returns that error unchanged, makes no
\* further attempt and triggers no rotation for it; when it is the call's
\* first attempt (always so for Put, DeleteRange and Compact) the call has
\* made exactly one attempt and triggered no rotation at all.
C2_RPCErrorEndsCall ==
  \A t \in Callers :
    \A i \in Idx(log[t], "fail") :
      log[t][i].s \in RPCErrs =>
        /\ i = Len(log[t])
        /\ pc[t] = "done"
        /\ result[t] = ErrResult(log[t][i].s)
        /\ (op[t] # "Range" \/ i = 2) =>
             /\ i = 2
             /\ Attempts(t) = 1
             /\ Idx(log[t], "retry") \cup Idx(log[t], "spawn") = {}

\* C2 witness: a Range returned the RPC-level error of its second attempt,
\* and another call returned the RPC-level error of its only attempt.
C2_Witness ==
  \E t, u \in Callers :
    /\ op[t] = "Range" /\ pc[t] = "done" /\ Attempts(t) = 2
    /\ result[t].err \in RPCErrs
    /\ op[u] \in WriteKinds \cup {"Compact"} /\ pc[u] = "done"
    /\ result[u].err \in RPCErrs

\* C3: a Range whose first attempt fails in transport, whose rotation then
\* succeeds and whose second attempt succeeds has made exactly two attempts
\* and returns the second attempt's reply, in the Range variant, with a nil
\* error.
C3_ReadRetrySucceeds ==
  \A t \in Callers :
    (/\ op[t] = "Range"
     /\ Len(log[t]) >= 6
     /\ log[t][2].e = "fail" /\ log[t][2].s \in TransportErrs
     /\ log[t][4].e = "rotok"
     /\ log[t][6].e = "ok") =>
       /\ Len(log[t]) = 6
       /\ Attempts(t) = 2
       /\ pc[t] = "done"
       /\ result[t] = [resp |-> ResponseUnion("ResponseRange", log[t][6].c),
                       err |-> NoErr]

\* C3 witness: such a Range has returned, its second attempt issued on the
\* stub of the connection its rotation installed.
C3_Witness ==
  \E t \in Callers :
    /\ op[t] = "Range" /\ pc[t] = "done" /\ Len(log[t]) = 6
    /\ log[t][2].s \in TransportErrs
    /\ log[t][4].e = "rotok"
    /\ log[t][5] = EvRpc(NewKVClient(log[t][4].c))
    /\ log[t][6].e = "ok"
    /\ result[t].err = NoErr

\* C4: whenever the mutex is free, kv.remote is the stub bound to kv.conn,
\* from the state NewKV builds onwards, and a stub snapshot getRemote
\* returned was bound to a connection that was then current.
C4_NoTornPair ==
  (nk = "done" /\ mu = NoProc) => remote = NewKVClient(conn)

\* C5: a Range attempt that fails because the context was canceled ends the
\* call with the cancellation error: no rotation and no further attempt.
C5_CancelNotRetried ==
  \A t \in Callers :
    \A i \in Idx(log[t], "fail") :
      (op[t] = "Range" /\ log[t][i].s \in CancelErrs) =>
        /\ \A j \in (i + 1)..Len(log[t]) : log[t][j].e \notin {"retry", "rpc"}
        /\ pc[t] = "done" => result[t] = ErrResult(log[t][i].s)

\* C6: a Put, DeleteRange or Compact whose attempt failed with a non-RPC
\* error returns that error without waiting for the rotation it triggered:
\* the call completes although nothing is assumed of the goroutine, of
\* retryConnection or of the mutex.
C6_WriteReturnsWithoutWaiting ==
  \A t \in Callers :
    (/\ op[t] \in WriteKinds \cup {"Compact"}
     /\ \E i \in Idx(log[t], "fail") : log[t][i].s \in NonRPCErrs)
    ~> (pc[t] = "done" /\ result[t] = ErrResult(prevErr[t]))

\* C6 witness: the call has returned its transport error while the rotation
\* it triggered is still inside retryConnection and another switchRemote
\* holds the mutex.
C6_Witness ==
  \E t \in Callers : \E g \in Gos :
    /\ op[t] \in WriteKinds \cup {"Compact"}
    /\ pc[t] = "done" /\ result[t].err \in TransportErrs
    /\ Idx(log[t], "spawn") # {} /\ log[t][3] = EvSpawn(g)
    /\ pc[g] = "retry"
    /\ \E q \in Procs \ {t, g} : mu = q /\ pc[q] \in {"set1", "set2", "unlock"}

\* C7: the rotation a failed write detached calls retryConnection, once,
\* and when retryConnection hands it a connection it installs that
\* connection and a stub bound to it in kv, whether or not the triggering
\* call has returned.
C7_DetachedRotationHappens ==
  /\ [](\A g \in Gos :
          /\ Cardinality(Idx(log[g], "retry")) <= 1
          /\ pc[g] = "unlock" =>
               conn = newc[g] /\ remote = NewKVClient(newc[g]))
  /\ \A g \in Gos :
       (pc[g] = "sw") ~> (Cardinality(Idx(log[g], "retry")) = 1)
  /\ \A g \in Gos :
       (pc[g] = "swret" /\ rerr[g] = NoErr)
         ~> (pc[g] = "unlock" /\ conn = newc[g] /\ remote = NewKVClient(newc[g]))

\* C7 witness: the triggering write has returned and its goroutine has
\* installed the connection retryConnection gave it.
C7_Witness ==
  \E g \in Gos :
    /\ pc[g] = "unlock"
    /\ parent[g] \in Callers /\ pc[parent[g]] = "done"
    /\ op[parent[g]] \in WriteKinds
    /\ conn = newc[g] /\ remote = NewKVClient(newc[g]) /\ conn # arg[g]
    /\ Cardinality(Idx(log[g], "retry")) = 1

\* C8: when the rotation of a Range call fails, the call returns the
\* rotation's error, not the transport error of the attempt, and issues no
\* further attempt.
C8_ReadRotationFailureReturned ==
  \A t \in Callers :
    \A i \in Idx(log[t], "rotfail") :
      op[t] = "Range" =>
        /\ i = Len(log[t])
        /\ pc[t] = "done"
        /\ result[t] = ErrResult(log[t][i].s)
        /\ result[t].err # prevErr[t]
        /\ log[t][i].s \in DialErrs

\* C8 witness: a Range returned the dial error of its rotation after one
\* attempt that failed in transport.
C8_Witness ==
  \E t \in Callers :
    /\ op[t] = "Range" /\ pc[t] = "done"
    /\ prevErr[t] \in TransportErrs
    /\ result[t].err \in DialErrs
    /\ Attempts(t) = 1

\* C9: Compact makes one attempt per call: nil on success; an RPC-level
\* error returned with no rotation; a transport error returned after one
\* rotation was detached; the call never rotates synchronously.
C9_CompactSingleAttempt ==
  \A t \in Callers :
    op[t] = "Compact" =>
      /\ Attempts(t) <= 1
      /\ Idx(log[t], "retry") = {}
      /\ pc[t] \in {"ret", "done"} => Attempts(t) = 1 /\ Len(log[t]) >= 2
      /\ pc[t] = "ret" =>
           /\ log[t][2].e = "fail" /\ log[t][2].s \in NonRPCErrs
           /\ Cardinality(Idx(log[t], "spawn")) = 1
      /\ pc[t] = "done" =>
           CASE log[t][2].e = "ok" ->
                  result[t] = [resp |-> NoResp, err |-> NoErr] /\ Len(log[t]) = 2
             [] log[t][2].e = "fail" /\ log[t][2].s \in RPCErrs ->
                  result[t] = ErrResult(log[t][2].s) /\ Len(log[t]) = 2
             [] OTHER ->
                  /\ log[t][2].e = "fail" /\ log[t][2].s \in NonRPCErrs
                  /\ result[t] = ErrResult(log[t][2].s)
                  /\ Cardinality(Idx(log[t], "spawn")) = 1
                  /\ Len(log[t]) = 3

\* C9 witness: one Compact returned its RPC-level error with nothing
\* detached while another returned a transport error with one goroutine
\* detached.
C9_Witness ==
  \E t, u \in Callers :
    /\ op[t] = "Compact" /\ pc[t] = "done" /\ result[t].err \in RPCErrs
    /\ op[u] = "Compact" /\ pc[u] = "done" /\ result[u].err \in TransportErrs
    /\ \E g \in Gos : parent[g] = u /\ pc[g] # "unborn"

\* The calls whose current call detached goroutine g.
Detacher(g) == {t \in Callers : \E i \in Idx(log[t], "spawn") : log[t][i].c = g}

\* C10 as stated: whenever retryConnection fails inside a rotation, on either
\* path, the call that triggered the rotation returns that failure.
C10_Original ==
  /\ \A t \in Callers :
       \A i \in Idx(log[t], "rotfail") :
         pc[t] = "done" => result[t].err = log[t][i].s
  /\ \A g \in Gos :
       \A i \in Idx(log[g], "rotfail") :
         \A t \in Detacher(g) :
           pc[t] = "done" => result[t].err = log[g][i].s

\* C10 amended: on the read path a rotation error is never swallowed: the
\* Range call whose rotation failed returns that failure as its terminal
\* error.  On the write and Compact path the rotation is detached and its
\* failure reaches no caller: the call returns the error of its attempt, and
\* a call returns a rotation error only when its own synchronous rotation
\* failed.
C10_RotationErrorOnReadPath ==
  /\ \A t \in Callers :
       \A i \in Idx(log[t], "rotfail") :
         /\ op[t] = "Range"
         /\ i = Len(log[t])
         /\ pc[t] = "done"
         /\ result[t].err = log[t][i].s
  /\ \A t \in Callers :
       (pc[t] = "done" /\ result[t].err \in DialErrs) =>
         Idx(log[t], "rotfail") # {}
  /\ \A g \in Gos :
       \A t \in Detacher(g) :
         pc[t] = "done" => result[t].err \in NonRPCErrs

\* C10 witness: a Range returned the failure of its rotation, and a write
\* returned its transport error although the rotation it detached failed.
C10_Witness ==
  \E t, u \in Callers : \E g \in Gos :
    /\ op[t] = "Range" /\ pc[t] = "done" /\ result[t].err \in DialErrs
    /\ u \in Detacher(g) /\ pc[u] = "done" /\ result[u].err \in TransportErrs
    /\ pc[g] = "end" /\ rerr[g] \in DialErrs

\* C11: a call of kv.do never reaches the "Unknown op" panic, for any
\* descriptor kind of Range, Put, DeleteRange and Txn.
C11_DoNeverPanics ==
  \A t \in Callers : op[t] \in DoKinds => pc[t] # "panic"

\* C12: every step that reads or writes kv.conn or kv.remote after
\* construction is taken by the process that holds kv.mu: the read of kv.conn
\* handed to retryConnection, the read of kv.remote in getRemote and the two
\* assignments of switchRemote.
C12_PairAccessedUnderMutex ==
  [][\A p \in Procs :
       (\/ SwitchRetry(p)
        \/ p \in Callers /\ GetRemoteRead(p)
        \/ SwitchSetConn(p)
        \/ SwitchSetRemote(p)) => mu = p]_vars

\* C13: a process inside an RPC or inside retryConnection does not hold
\* kv.mu; the holder is always inside getRemote or the install of
\* switchRemote, where its next step to the release waits for nothing.
C13_MutexNotHeldAcrossIO ==
  /\ \A p \in Procs : pc[p] \in {"rpc", "retry"} => mu # p
  /\ \A p \in Procs : mu = p <=> pc[p] \in {"gr", "set1", "set2", "unlock"}
  /\ mu # NoProc => ENABLED HolderStep

\* C13 witness: while one process is inside an RPC, another has acquired
\* the mutex for the install of its switchRemote.
C13_Witness ==
  \E p, r \in Procs :
    /\ pc[p] = "rpc"
    /\ mu = r /\ pc[r] = "set1"

\* Failed attempts of the call that were not RPC-level errors.
NonRPCFails(t) == {i \in Idx(log[t], "fail") : log[t][i].s \in NonRPCErrs}
LastOf(S) == CHOOSE i \in S : \A j \in S : j <= i

\* C14: rotation is not deduplicated.  Every attempt that fails with a
\* non-RPC error gets one retryConnection call of its own: a Range makes it
\* itself, a write or Compact detaches one goroutine that makes it.  When no
\* install is in progress, kv.conn is the connection handed to the
\* switchRemote that completed its install last and kv.remote is bound to it.
C14_RotationNotDeduplicated ==
  /\ \A t \in Callers :
       IF op[t] = "Range"
         THEN /\ Cardinality(Idx(log[t], "retry")) =
                   Cardinality(NonRPCFails(t)) - (IF pc[t] = "sw" THEN 1 ELSE 0)
              /\ Idx(log[t], "spawn") = {}
         ELSE /\ Cardinality(Idx(log[t], "spawn")) = Cardinality(NonRPCFails(t))
              /\ Idx(log[t], "retry") = {}
  /\ \A g \in Gos :
       /\ Cardinality(Idx(log[g], "retry")) =
            (IF pc[g] \in {"unborn", "sw"} THEN 0 ELSE 1)
       /\ pc[g] # "unborn" => parent[g] \in Callers
  /\ (mu = NoProc /\ lastInst # NoProc) =>
       /\ conn = lastConn
       /\ remote = NewKVClient(lastConn)
       /\ Idx(log[lastInst], "rotok") # {} =>
            lastConn = log[lastInst][LastOf(Idx(log[lastInst], "rotok"))].c

\* C14 witness: two attempts failed on the same connection, each rotation
\* called retryConnection and installed what it got, and kv holds the
\* connection of the one that installed last, not the other's.
C14_Witness ==
  \E p, q \in Procs :
    /\ p # q
    /\ failedOn[p] = failedOn[q] /\ failedOn[p] # NoConn
    /\ Idx(log[p], "rotok") # {} /\ Idx(log[q], "rotok") # {}
    /\ Cardinality(Idx(log[p], "retry")) = 1
    /\ Cardinality(Idx(log[q], "retry")) = 1
    /\ lastInst = q /\ mu = NoProc
    /\ conn = newc[q] /\ newc[p] # newc[q]

\* C15: the connection a rotation hands to retryConnection is the connection
\* of the stub its failed attempt was issued on, also when another rotation,
\* started by a failure on that same connection, installs its new connection
\* between the failed attempt and this rotation's call of retryConnection.
C15_FailedConnectionHandedOver ==
  \A p \in Procs :
    (/\ pc[p] \in {"retry", "swret", "set1", "set2", "unlock"}
     /\ \E q \in Procs \ {p} :
          /\ failedOn[q] = failedOn[p]
          /\ arg[q] = failedOn[q]
          /\ pc[q] \in {"set2", "unlock"})
    => arg[p] = failedOn[p]

LastEv(t) == log[t][Len(log[t])]

\* C16: the read loop of kv.do has no retry count.  A Range call returns
\* only on a successful attempt, on an RPC-level error or on a rotation
\* failure; after an attempt that failed in transport it always goes on to
\* rotate, and after a rotation that succeeded it always goes on to its next
\* attempt, however many attempts it has made.
C16_ReadLoopUnbounded ==
  \A t \in Callers :
    (op[t] = "Range" /\ Len(log[t]) > 0) =>
      /\ pc[t] = "done" =>
           \/ LastEv(t).e = "ok"
           \/ LastEv(t).e = "fail" /\ LastEv(t).s \in RPCErrs
           \/ LastEv(t).e = "rotfail"
      /\ (LastEv(t).e = "fail" /\ LastEv(t).s \in NonRPCErrs) => pc[t] = "sw"
      /\ LastEv(t).e = "retry" =>
           pc[t] \in {"retry", "swret", "set1", "set2", "unlock"}
      /\ LastEv(t).e = "rotok" => pc[t] \in {"top", "gr"}
      /\ LastEv(t).e = "rpc" => pc[t] = "rpc"

\* C16 witness: a Range call has made every attempt the bound allows, all of
\* them failed in transport, every rotation so far succeeded, and the call
\* has not returned: it is about to rotate again.
C16_Witness ==
  \E t \in Callers :
    /\ op[t] = "Range" /\ pc[t] = "sw"
    /\ Attempts(t) = MaxAttempts
    /\ Cardinality(NonRPCFails(t)) = MaxAttempts
    /\ Cardinality(Idx(log[t], "rotok")) = MaxAttempts - 1
    /\ \A i \in NonRPCFails(t) : log[t][i].s \in TransportErrs

\* C17: the attempts of one Range call are strictly sequential.  An attempt
\* that is followed by anything is followed by its own outcome, so at most
\* the last one is in flight; and every attempt but the first comes right
\* after the call's own rotation returned successfully, which came after the
\* call's retryConnection call for the transport failure of the attempt
\* before.
C17_ReadAttemptsSequential ==
  \A t \in Callers :
    op[t] = "Range" =>
      /\ pc[t] = "rpc" <=> (Len(log[t]) > 0 /\ LastEv(t).e = "rpc")
      /\ \A i \in Idx(log[t], "rpc") :
           /\ i < Len(log[t]) => log[t][i + 1].e \in {"ok", "fail"}
           /\ i = 1 \/
                /\ i >= 5
                /\ log[t][i - 1].e = "rotok"
                /\ log[t][i - 2].e = "retry"
                /\ log[t][i - 3].e = "fail" /\ log[t][i - 3].s \in NonRPCErrs
                /\ log[t][i - 4].e = "rpc"

\* C17 witness: the second attempt of a Range call is in flight, after the
\* first failed in transport and the call's rotation installed a connection.
C17_Witness ==
  \E t \in Callers :
    /\ op[t] = "Range" /\ pc[t] = "rpc" /\ Attempts(t) = 2
    /\ log[t][2].s \in TransportErrs
    /\ log[t][4].e = "rotok"

\* C18: every retry attempt of a Range call takes its stub under the mutex
\* after the call's own rotation, and the stub is bound to the connection of
\* the latest completed install: the one this call's rotation installed when
\* no rotation completed since, else the one a later rotation installed.
C18_RetryUsesFreshStub ==
  [][\A t \in Callers :
       (GetRemoteRead(t) /\ op[t] = "Range" /\ Attempts(t) >= 1) =>
         /\ mu = t
         /\ LastEv(t).e = "rotok"
         /\ lrem'[t] = NewKVClient(lastConn)
         /\ lastInst = t => lastConn = LastEv(t).c
         /\ lastInst # t => lastInst \in Procs]_vars

\* C18 witness: two Range calls are in their second attempts; the rotation
\* of one completed last and its attempt is on the stub of the connection it
\* installed, the other call's attempt is on that same stub and not on the
\* one of the connection its own rotation had installed.
C18_Witness ==
  \E t, u \in Callers :
    /\ t # u
    /\ op[t] = "Range" /\ pc[t] = "rpc" /\ Attempts(t) = 2
    /\ op[u] = "Range" /\ pc[u] = "rpc" /\ Attempts(u) = 2
    /\ lastInst = t
    /\ lrem[t] = NewKVClient(log[t][4].c)
    /\ lrem[u] = NewKVClient(lastConn)
    /\ log[u][4].e = "rotok" /\ log[u][4].c # lastConn

\* C19: a failed rotation changes nothing.  The step in which switchRemote
\* returns after retryConnection gave an error leaves kv.conn, kv.remote and
\* the mutex as they were and ends the rotation with that error (the result
\* of a read call, the end of a detached goroutine); no process inside the
\* locked part of switchRemote carries a retryConnection error; and once
\* NewKV has returned the stored connection and stub are never nil.
C19_FailedRotationChangesNothing ==
  /\ [](\A p \in Procs :
          pc[p] \in {"set1", "set2", "unlock"} => (rerr[p] = NoErr /\ mu = p))
  /\ [](nk = "done" => (conn # NoConn /\ remote # NoStub))
  /\ [][\A p \in Procs :
          (pc[p] = "swret" /\ rerr[p] # NoErr /\ pc'[p] # pc[p]) =>
            /\ conn' = conn /\ remote' = remote /\ mu' = mu
            /\ mu # p
            /\ pc'[p] = IF p \in Callers THEN "done" ELSE "end"
            /\ p \in Callers => result'[p] = ErrResult(rerr[p])
            /\ log'[p] = Append(log[p], EvRotFail(rerr[p]))]_vars

\* C19 witness: a rotation has ended in failure, and another call is inside
\* getRemote about to take the stub: the stored pair is an installed one.
C19_Witness ==
  \E p \in Procs, t \in Callers :
    /\ p # t
    /\ pc[p] \in {"done", "end"}
    /\ Len(log[p]) > 0 /\ LastEv(p).e = "rotfail"
    /\ pc[t] = "gr" /\ mu = t
    /\ remote = NewKVClient(conn)

\* The argument of the last option of the given name, 0 when there is none.
Setting(opts, name) ==
  LET I == {i \in 1..Len(opts) : opts[i].o = name}
  IN  IF I = {} THEN 0 ELSE opts[LastOf(I)].v

\* The RPC method of each API entry's kind.
apiMethod(f) ==
  CASE f = "Put" -> "Put"
    [] f = "Get" -> "Range"
    [] f = "Delete" -> "DeleteRange"

\* C20: kv.do calls the stub method of the descriptor's kind and on success
\* returns the union whose variant is the one of that kind, holding the
\* stub's response, so that what Put, Get and Delete unwrap is the populated
\* variant; the Put request carries the call's key and value and the lease
\* id of its options (0 without one), the Range request the call's key and
\* the range end, limit and revision of its options.
C20_MethodRequestAndVariantMatchKind ==
  /\ oph \in {"rpc", "reply", "ret", "done"} =>
       /\ oreq.method = apiMethod(oapi.f)
       /\ oapi.f = "Put" =>
            oreq.msg = [Key |-> oapi.key, Value |-> oapi.val,
                        Lease |-> Setting(oopts, "WithLease")]
       /\ oapi.f = "Get" =>
            /\ oreq.msg.Key = oapi.key
            /\ oreq.msg.RangeEnd = Setting(oopts, "WithRange")
            /\ oreq.msg.Limit = Setting(oopts, "WithLimit")
            /\ oreq.msg.Revision = Setting(oopts, "WithRev")
  /\ oph \in {"reply", "ret", "done"} => oreply.of = apiMethod(oapi.f)
  /\ oph \in {"ret", "done"} =>
       /\ oresp.tag = apiVariant(oapi.f)
       /\ oresp.reply = oreply
  /\ oph = "done" => (oout = oreply /\ oout # NilReply)

\* C20 witness: a Put given a lease option has returned the response of the
\* stub's Put method, whose request carried that lease.
C20_Witness ==
  /\ oph = "done"
  /\ oapi.f = "Put"
  /\ Setting(oopts, "WithLease") # 0
  /\ oreq.msg.Lease = Setting(oopts, "WithLease")
  /\ oout = StubReply("Put", oreply.v)
====
